---- MODULE Spec2Model ----
(***************************************************************************)
(* Model of references/orchestrator_example.py: CLIOrchestrator.           *)
(*                                                                         *)
(*   build_command     pure function (tool, prompt, options) -> argv,stdin *)
(*   invoke_sync       one blocking subprocess.run with a timeout          *)
(*   invoke_async      one asyncio subprocess awaited under wait_for       *)
(*   invoke_parallel   asyncio.gather of invoke_async under a Semaphore    *)
(*                                                                         *)
(* Python's Optional values are sequences of length <= 1: None is <<>> and *)
(* a present value v is <<v>>.                                             *)
(***************************************************************************)
EXTENDS Integers, Sequences, FiniteSets, TLC

VARIABLES
    primary_cli,      \* self.primary_cli
    fallback_cli,     \* self.fallback_cli
    default_timeout,  \* self.default_timeout
    call,             \* the call in progress: its kind and its arguments
    ret,              \* what the call has handed to its caller so far
    semaphore,        \* asyncio.Semaphore._value of invoke_parallel
    task,             \* per invocation: position in invoke_sync / invoke_async
    proc,             \* per invocation: the child process
    order             \* indices of the invocations in the order they ended

vars == <<primary_cli, fallback_cli, default_timeout, call, ret, semaphore, task, proc, order>>

(***************************************************************************)
(* Bounds of the model.                                                    *)
(***************************************************************************)
MaxPrompts == 2
MaxConcurrent == 2

(***************************************************************************)
(* Python values.                                                          *)
(***************************************************************************)
None == <<>>
Some(v) == <<v>>
Val(o) == o[1]

\* bool(x) of an Optional[str], of an Optional[list], of an Optional[int]
TruthyStr(o) == o # None /\ Val(o) # ""
TruthyList(o) == o # None /\ Val(o) # <<>>
TruthyInt(o) == o # None /\ Val(o) # 0

Last(s) == s[Len(s)]

\* list.extend
Extend(cmd, items) == cmd \o items

\* A directory argument is a str or a pathlib.Path (list[str | Path]); str()
\* of a str is the string itself, str() of a Path joins its parts with "/".
StrDir(s) == [type |-> "str", s |-> s]
PathDir(parts) == [type |-> "Path", parts |-> parts]

RECURSIVE JoinParts(_)
JoinParts(parts) ==
    IF Len(parts) = 0 THEN "."
    ELSE IF Len(parts) = 1 THEN parts[1]
    ELSE parts[1] \o "/" \o JoinParts(Tail(parts))

Str(d) == IF d.type = "str" THEN d.s ELSE JoinParts(d.parts)

(***************************************************************************)
(* build_command                                                           *)
(***************************************************************************)

\* for dir_path in add_dirs: cmd.extend(["--add-dir", str(dir_path)])
RECURSIVE AddDirFlags(_, _)
AddDirFlags(cmd, dirs) ==
    IF dirs = <<>> THEN cmd
    ELSE AddDirFlags(Extend(cmd, <<"--add-dir", Str(Head(dirs))>>), Tail(dirs))

\* for tool_name in allowed_tools: cmd.extend(["--allowedTools", tool_name])
RECURSIVE AllowedToolFlags(_, _)
AllowedToolFlags(cmd, tools) ==
    IF tools = <<>> THEN cmd
    ELSE AllowedToolFlags(Extend(cmd, <<"--allowedTools", Head(tools)>>), Tail(tools))

\* the opencode branch: sandbox, settings, directories and tools are not read
OpencodeCommand(prompt, model) ==
    LET cmd0 == <<"opencode", "run">>
        cmd1 == IF TruthyStr(model) THEN Extend(cmd0, <<"--model", Val(model)>>) ELSE cmd0
    IN  <<Append(cmd1, prompt), None>>

\* A slip: the tool flags are written before the directory flags.
ClaudeOptionsToolsFirst(model, allowed_tools, add_dirs, settings_json) ==
    LET cmd0 == <<"claude">>
        cmd1 == IF TruthyStr(model) THEN Extend(cmd0, <<"--model", Val(model)>>) ELSE cmd0
        cmd2 == IF TruthyStr(settings_json)
                THEN Extend(cmd1, <<"--settings", Val(settings_json)>>) ELSE cmd1
        cmd3 == IF TruthyList(allowed_tools) THEN AllowedToolFlags(cmd2, Val(allowed_tools))
                ELSE cmd2
    IN  IF TruthyList(add_dirs) THEN AddDirFlags(cmd3, Val(add_dirs)) ELSE cmd3

\* the claude branch up to the prompt
ClaudeOptions(model, allowed_tools, add_dirs, settings_json) ==
    LET cmd0 == <<"claude">>
        cmd1 == IF TruthyStr(model) THEN Extend(cmd0, <<"--model", Val(model)>>) ELSE cmd0
        cmd2 == IF TruthyStr(settings_json)
                THEN Extend(cmd1, <<"--settings", Val(settings_json)>>) ELSE cmd1
        cmd3 == IF TruthyList(add_dirs) THEN AddDirFlags(cmd2, Val(add_dirs)) ELSE cmd2
    IN  IF TruthyList(allowed_tools) THEN AllowedToolFlags(cmd3, Val(allowed_tools)) ELSE cmd3

\* A slip: the prompt is appended in sandbox mode too.
PromptPartAlwaysArgument(cmd, prompt, enable_sandbox) ==
    IF enable_sandbox
    THEN <<Extend(cmd, <<"-p", prompt>>), Some("/sandbox\n" \o prompt)>>
    ELSE <<Extend(cmd, <<"-p", prompt>>), None>>

\* if enable_sandbox: ... else: ...
PromptPart(cmd, prompt, enable_sandbox) ==
    IF enable_sandbox
    THEN <<Append(cmd, "-p"), Some("/sandbox\n" \o prompt)>>
    ELSE <<Extend(cmd, <<"-p", prompt>>), None>>

\* returns <<cmd, stdin_content>>
build_command(tool, prompt, model, allowed_tools, add_dirs, settings_json, enable_sandbox) ==
    IF tool = "opencode"
    THEN OpencodeCommand(prompt, model)
    ELSE PromptPart(ClaudeOptions(model, allowed_tools, add_dirs, settings_json),
                    prompt, enable_sandbox)

(***************************************************************************)
(* Inputs.                                                                 *)
(***************************************************************************)
Prompts == {"A", "B"}
ToolNames == {"claude", "opencode", "claude-dev"}
Models == {None, Some(""), Some("opus")}
SettingsArgs == {None, Some("s.json")}
DirLists == {None, Some(<<>>), Some(<<StrDir("a/")>>),
             Some(<<PathDir(<<"a", "b">>), StrDir("c")>>)}
ToolLists == {None, Some(<<>>), Some(<<"Read">>), Some(<<"Write", "Read">>)}

BuildCalls ==
    [kind : {"build_command"}, tool : ToolNames, prompt : Prompts \cup {""}, model : Models,
     allowed_tools : ToolLists, add_dirs : DirLists, settings_json : SettingsArgs,
     enable_sandbox : BOOLEAN]

\* default_timeout: int = 600
DefaultTimeout == 600

\* self.fallback_cli = fallback_cli if fallback_cli != "none" else None
FallbackCliOf(f) == IF f # Some("none") THEN f ELSE None

Pending == [kind |-> "pending"]
Returned(v) == [kind |-> "value", val |-> v]
Raised(e) == [kind |-> "raised", exc |-> e]

(***************************************************************************)
(* Specification of build_command alone: any arguments, one application.   *)
(***************************************************************************)
InitBuild ==
    /\ primary_cli = "claude"
    /\ fallback_cli = FallbackCliOf(Some("opencode"))
    /\ default_timeout = DefaultTimeout
    /\ call \in BuildCalls
    /\ ret = Pending
    /\ semaphore = 0
    /\ task = <<>>
    /\ proc = <<>>
    /\ order = <<>>

Build ==
    /\ call.kind = "build_command"
    /\ ret = Pending
    /\ ret' = Returned(build_command(call.tool, call.prompt, call.model, call.allowed_tools,
                                     call.add_dirs, call.settings_json, call.enable_sandbox))
    /\ UNCHANGED <<primary_cli, fallback_cli, default_timeout, call, semaphore, task, proc, order>>

NextBuild == Build

SpecBuild == InitBuild /\ [][NextBuild]_vars


(***************************************************************************)
(* extract_json_from_output.  A text is the sequence of its lexemes:       *)
(* whitespace characters, Fence, "json", the JSON punctuation, JSON string *)
(* and number literals, "null" and words of prose.                         *)
(***************************************************************************)
\* the whitespace json.loads skips, str.strip() strips and \s matches
Whitespace == {" ", "\n", "\r", "\t"}
\* the lexeme of three backquotes
Fence == "FENCE"
\* the lexeme of a run of "[" longer than the interpreter's recursion limit
DeepOpen == "[[...["
NumberTokens == {"1", "4"}
StringTokens == {"\"x\""}

\* int("1"), int("4")
NumberValue(tok) == IF tok = "1" THEN 1 ELSE 4
\* the text between the quotes
StringValue(tok) == "x"

\* the Python values json.loads builds
PyInt(n) == [type |-> "int", n |-> n]
PyStr(s) == [type |-> "str", s |-> s]
PyNone == [type |-> "None"]
PyList(items) == [type |-> "list", items |-> items]
\* a dict as its items in insertion order (the texts repeat no key)
PyDict(items) == [type |-> "dict", items |-> items]

\* the value a function returns: Python's None is the absent Optional
PyReturn(v) == IF v.type = "None" THEN None ELSE Some(v)

\* raise json.JSONDecodeError; the RecursionError of the scanner, which no
\* except clause here names; the value parsed and the position after it
ParseError == [ok |-> FALSE, error |-> "JSONDecodeError"]
RecursionError == [ok |-> FALSE, error |-> "RecursionError"]
Parsed(v, p) == [ok |-> TRUE, val |-> v, pos |-> p]

RECURSIVE SkipWhitespace(_, _)
SkipWhitespace(ts, p) ==
    IF p <= Len(ts) /\ ts[p] \in Whitespace THEN SkipWhitespace(ts, p + 1) ELSE p

\* json.scanner: one value at p; JSONObject and JSONArray of json.decoder
RECURSIVE ParseValue(_, _), ParseMembers(_, _, _), ParseElements(_, _, _)
ParseValue(ts, p) ==
    IF p > Len(ts) THEN ParseError
    ELSE IF ts[p] \in NumberTokens THEN Parsed(PyInt(NumberValue(ts[p])), p + 1)
    ELSE IF ts[p] \in StringTokens THEN Parsed(PyStr(StringValue(ts[p])), p + 1)
    ELSE IF ts[p] = "null" THEN Parsed(PyNone, p + 1)
    ELSE IF ts[p] = "{"
         THEN LET q == SkipWhitespace(ts, p + 1)
              IN  IF q <= Len(ts) /\ ts[q] = "}" THEN Parsed(PyDict(<<>>), q + 1)
                  ELSE ParseMembers(ts, q, <<>>)
    ELSE IF ts[p] = DeepOpen THEN RecursionError
    ELSE IF ts[p] = "["
         THEN LET q == SkipWhitespace(ts, p + 1)
              IN  IF q <= Len(ts) /\ ts[q] = "]" THEN Parsed(PyList(<<>>), q + 1)
                  ELSE ParseElements(ts, q, <<>>)
    ELSE ParseError

\* "key" : value, then "," and the next member, or "}"
ParseMembers(ts, p, items) ==
    IF p > Len(ts) \/ ts[p] \notin StringTokens THEN ParseError
    ELSE LET c == SkipWhitespace(ts, p + 1)
         IN  IF c > Len(ts) \/ ts[c] # ":" THEN ParseError
             ELSE LET v == ParseValue(ts, SkipWhitespace(ts, c + 1))
                  IN  IF ~v.ok THEN v
                      ELSE LET e == SkipWhitespace(ts, v.pos)
                               more == Append(items, <<StringValue(ts[p]), v.val>>)
                           IN  IF e > Len(ts) THEN ParseError
                               ELSE IF ts[e] = "}" THEN Parsed(PyDict(more), e + 1)
                               ELSE IF ts[e] = ","
                                    THEN ParseMembers(ts, SkipWhitespace(ts, e + 1), more)
                               ELSE ParseError

\* value, then "," and the next value, or "]"
ParseElements(ts, p, items) ==
    LET v == ParseValue(ts, p)
    IN  IF ~v.ok THEN v
        ELSE LET e == SkipWhitespace(ts, v.pos)
                 more == Append(items, v.val)
             IN  IF e > Len(ts) THEN ParseError
                 ELSE IF ts[e] = "]" THEN Parsed(PyList(more), e + 1)
                 ELSE IF ts[e] = "," THEN ParseElements(ts, SkipWhitespace(ts, e + 1), more)
                 ELSE ParseError

\* json.loads: whitespace, one value, whitespace, end of text
json_loads(ts) ==
    LET v == ParseValue(ts, SkipWhitespace(ts, 1))
    IN  IF v.ok /\ SkipWhitespace(ts, v.pos) # Len(ts) + 1 THEN ParseError ELSE v

\* str.strip()
RECURSIVE StripRight(_)
StripRight(ts) ==
    IF ts # <<>> /\ ts[Len(ts)] \in Whitespace THEN StripRight(SubSeq(ts, 1, Len(ts) - 1)) ELSE ts
Strip(ts) == StripRight(SubSeq(ts, SkipWhitespace(ts, 1), Len(ts)))

Min(S) == CHOOSE x \in S : \A y \in S : x <= y
Max(S) == CHOOSE x \in S : \A y \in S : x >= y

\* r"```(?:json)?\s*\n([\s\S]*?)\n```", the part after (?:json)? tried at q:
\* \s* is greedy and gives back until a "\n" follows it from which the lazy
\* group can reach a "\n```"
Closings(ts, from) == {c \in from..(Len(ts) - 1) : ts[c] = "\n" /\ ts[c + 1] = Fence}
NoMatch == [ok |-> FALSE]
FenceBody(ts, q) ==
    LET w == SkipWhitespace(ts, q)
        ns == {n \in q..(w - 1) : ts[n] = "\n" /\ Closings(ts, n + 1) # {}}
    IN  IF ns = {} THEN NoMatch
        ELSE LET n == Max(ns)
                 c == Min(Closings(ts, n + 1))
             IN  [ok |-> TRUE, group |-> SubSeq(ts, n + 1, c - 1), end |-> c + 2]

\* the pattern tried at the fence at p: with "json" consumed first, then without
FenceAt(ts, p) ==
    IF p + 1 <= Len(ts) /\ ts[p + 1] = "json" /\ FenceBody(ts, p + 2).ok
    THEN FenceBody(ts, p + 2)
    ELSE FenceBody(ts, p + 1)

\* re.findall(pattern, output): the groups of the matches, left to right,
\* each search starting where the last match ended
RECURSIVE FindFenced(_, _)
FindFenced(ts, p) ==
    IF p > Len(ts) THEN <<>>
    ELSE IF ts[p] = Fence /\ FenceAt(ts, p).ok
         THEN <<FenceAt(ts, p).group>> \o FindFenced(ts, FenceAt(ts, p).end)
         ELSE FindFenced(ts, p + 1)

\* re.findall(r"(\{[\s\S]*\})", output) and r"(\[[\s\S]*\])": from the first
\* opening bracket to the last closing one, if it comes later
FindGreedy(ts, open, close) ==
    LET opens == {a \in 1..Len(ts) : ts[a] = open \/ (open = "[" /\ ts[a] = DeepOpen)}
        closes == {b \in 1..Len(ts) : ts[b] = close}
    IN  IF opens # {} /\ closes # {} /\ Max(closes) > Min(opens)
        THEN <<SubSeq(ts, Min(opens), Max(closes))>>
        ELSE <<>>

\* for match in ...: try: return json.loads(match) except JSONDecodeError: continue
\* (any other exception leaves the loop and the function)
Continues(r) == ~r.ok /\ r.error = "JSONDecodeError"
RECURSIVE FirstParsed(_)
FirstParsed(matches) ==
    IF matches = <<>> THEN ParseError
    ELSE IF Continues(json_loads(Head(matches))) THEN FirstParsed(Tail(matches))
    ELSE json_loads(Head(matches))

StripAll(matches) == [k \in 1..Len(matches) |-> Strip(matches[k])]

\* return json.loads(...), or the exception that escapes
Outcome(r) == IF r.ok THEN Returned(PyReturn(r.val)) ELSE Raised(r.error)

extract_json_from_output(ts) ==
    IF ts = <<>> THEN Returned(None)
    ELSE IF ~Continues(json_loads(ts)) THEN Outcome(json_loads(ts))
    ELSE IF ~Continues(FirstParsed(StripAll(FindFenced(ts, 1))))
         THEN Outcome(FirstParsed(StripAll(FindFenced(ts, 1))))
    ELSE IF ~Continues(FirstParsed(FindGreedy(ts, "{", "}")))
         THEN Outcome(FirstParsed(FindGreedy(ts, "{", "}")))
    ELSE IF ~Continues(FirstParsed(FindGreedy(ts, "[", "]")))
         THEN Outcome(FirstParsed(FindGreedy(ts, "[", "]")))
    ELSE Returned(None)

\* the texts: before \o body \o after
TextsBefore ==
    {<<>>, <<"\n">>, <<"Result:", "\n">>, <<"{", "\"x\"", ":", "1", "}", "\n">>}
TextBodies ==
    {<<>>, <<"4">>, <<"null">>, <<"out">>,
     <<"{", "\"x\"", ":", "1", "}">>,
     <<"{", "\"x\"", ":", " ", "[", "1", ",", "4", "]", "}">>,
     <<"[", "1", ",", " ", "null", "]">>,
     <<"{", "out", "}">>,
     <<"[", "1", ",", "]">>,
     <<Fence, "json", "\n", "{", "\"x\"", ":", "4", "}", "\n", Fence>>,
     <<Fence, "\n", "[", "4", "]", "\n", Fence>>,
     <<Fence, "json", "\n", "out", "\n", Fence>>,
     <<Fence, "json", " ", "\n", "\n", " ", "4", " ", "\n", Fence>>,
     <<Fence, "json", "4", "\n", Fence>>,
     <<DeepOpen>>,
     <<Fence, "\n", DeepOpen, "\n", Fence>>}
TextsAfter ==
    {<<>>, <<"\r", "\n">>, <<" ", "ok">>, <<"\n", "[", "1", "]">>,
     <<"\n", Fence, "\n", "4", "\n", Fence>>}
Texts == {b \o t \o a : b \in TextsBefore, t \in TextBodies, a \in TextsAfter}

(***************************************************************************)
(* Specification of extract_json_from_output alone.                        *)
(***************************************************************************)
InitExtract ==
    /\ primary_cli = "claude"
    /\ fallback_cli = FallbackCliOf(Some("opencode"))
    /\ default_timeout = DefaultTimeout
    /\ call \in [kind : {"extract_json_from_output"}, output : Texts]
    /\ ret = Pending
    /\ semaphore = 0
    /\ task = <<>>
    /\ proc = <<>>
    /\ order = <<>>

Extract ==
    /\ call.kind = "extract_json_from_output"
    /\ ret = Pending
    /\ ret' = extract_json_from_output(call.output)
    /\ UNCHANGED <<primary_cli, fallback_cli, default_timeout, call, semaphore, task, proc, order>>

NextExtract == Extract

SpecExtract == InitExtract /\ [][NextExtract]_vars

(***************************************************************************)
(* The child process.  Its output is bytes, kept as a sequence of pieces;  *)
(* the piece "\r\n" is a CR LF pair.                                       *)
(***************************************************************************)
\* what a child may write and how it may exit: any of these in a single
\* invocation, one representative of each in the children of invoke_parallel
StdoutChunks(kind) ==
    IF kind = "invoke_parallel" THEN {<<"out", "\r\n">>}
    ELSE {<<"4">>, <<"out", "\r\n">>, <<"{", "\"x\"", ":", "1", "}">>, <<DeepOpen>>}
StderrChunks(kind) == IF kind = "invoke_parallel" THEN {<<"err">>} ELSE {<<>>, <<"err">>}
ExitCodes == {0, 1}
\* the OSError subclasses of a failed start: ENOENT, EACCES, ETIMEDOUT
SpawnErrors == {"FileNotFoundError", "PermissionError", "TimeoutError"}

NoProcess ==
    [state |-> "none", stdout |-> <<>>, stderr |-> <<>>, returncode |-> 0, spawn_error |-> "",
     spawned |-> 0]

RECURSIVE Concat(_)
Concat(pieces) == IF pieces = <<>> THEN "" ELSE Head(pieces) \o Concat(Tail(pieces))

\* bytes.decode("utf-8"): the text of the bytes, unchanged
DecodeUtf8(bytes) == Concat(bytes)

\* text=True of subprocess.run: io.TextIOWrapper in universal-newlines mode,
\* which turns "\r\n" and "\r" into "\n"
DecodeText(bytes) ==
    Concat([k \in 1..Len(bytes) |-> IF bytes[k] \in {"\r\n", "\r"} THEN "\n" ELSE bytes[k]])

\* the lexemes of the decoded text
RECURSIVE Utf8Lexemes(_)
Utf8Lexemes(bytes) ==
    IF bytes = <<>> THEN <<>>
    ELSE (IF Head(bytes) = "\r\n" THEN <<"\r", "\n">> ELSE <<Head(bytes)>>)
         \o Utf8Lexemes(Tail(bytes))
TextLexemes(bytes) ==
    [k \in 1..Len(bytes) |-> IF bytes[k] \in {"\r\n", "\r"} THEN "\n" ELSE bytes[k]]

(***************************************************************************)
(* The results.                                                            *)
(***************************************************************************)
DEFAULT_ALLOWED_TOOLS ==
    <<"Write", "Read", "Edit", "Glob", "Grep", "LS", "Bash", "Task", "Skill",
      "WebFetch", "WebSearch", "mcp__perplexity-ask__perplexity_ask",
      "mcp__context7__resolve-library-id", "mcp__context7__get-library-docs",
      "mcp__brave-search__brave_web_search">>

\* CLIInvocationResult(...) with the defaults of the dataclass for what is not given
CLIInvocationResult(status, tool, output, parsed_json, returncode, error, command) ==
    [status |-> status, tool |-> tool, output |-> output, parsed_json |-> parsed_json,
     returncode |-> returncode, error |-> error, fallback_used |-> FALSE,
     command |-> command]

\* x or d, for an int x (process.returncode is set once communicate() returns)
IntOr(x, d) == IF x = 0 THEN d ELSE x

\* the arguments of one invocation: those of the call, or invoke_async(prompt)
Args(i) ==
    IF call.kind = "invoke_parallel"
    THEN [prompt |-> call.prompts[i], tool |-> None, timeout |-> None, allowed_tools |-> None]
    ELSE [prompt |-> call.prompt, tool |-> call.tool, timeout |-> call.timeout,
          allowed_tools |-> call.allowed_tools]

\* tool = tool or self.primary_cli
ToolOf(a) == IF TruthyStr(a.tool) THEN Val(a.tool) ELSE primary_cli
\* timeout = timeout or self.default_timeout
TimeoutOf(a) == IF TruthyInt(a.timeout) THEN Val(a.timeout) ELSE default_timeout
\* allowed_tools = allowed_tools or self.DEFAULT_ALLOWED_TOOLS
AllowedOf(a) == IF TruthyList(a.allowed_tools) THEN Val(a.allowed_tools) ELSE DEFAULT_ALLOWED_TOOLS

\* cmd, stdin_content = self.build_command(tool=, prompt=, allowed_tools=)
CommandOf(a) ==
    build_command(ToolOf(a), a.prompt, None,
                  IF ToolOf(a) = "claude" THEN Some(AllowedOf(a)) ELSE None,
                  None, None, FALSE)

\* error=f"Timeout after {timeout}s"
TimeoutMessage(timeout) == "Timeout after " \o ToString(timeout) \o "s"

TimeoutResult(a) ==
    CLIInvocationResult("timeout", ToolOf(a), "", None, -1, Some(TimeoutMessage(TimeoutOf(a))),
                        CommandOf(a)[1])

\* self.extract_json_from_output(result.stdout) / (stdout_str)
SyncParsed(p) == extract_json_from_output(TextLexemes(p.stdout))
AsyncParsed(p) == extract_json_from_output(Utf8Lexemes(p.stdout))

\* invoke_sync, after subprocess.run has returned the CompletedProcess p
SyncResult(a, p) ==
    IF p.returncode = 0
    THEN CLIInvocationResult("success", ToolOf(a), DecodeText(p.stdout), SyncParsed(p).val,
                             p.returncode, None, CommandOf(a)[1])
    ELSE CLIInvocationResult("failed", ToolOf(a), DecodeText(p.stdout), None, p.returncode,
                             Some(DecodeText(p.stderr)), CommandOf(a)[1])

\* A slip: an empty stderr leaves the error unset.
AsyncResultNoError(a, p) ==
    LET stdout_str == IF p.stdout # <<>> THEN DecodeUtf8(p.stdout) ELSE ""
    IN  IF p.returncode = 0
        THEN CLIInvocationResult("success", ToolOf(a), stdout_str, AsyncParsed(p).val,
                                 IntOr(p.returncode, 0), None, CommandOf(a)[1])
        ELSE CLIInvocationResult("failed", ToolOf(a), stdout_str, None, IntOr(p.returncode, -1),
                                 IF p.stderr # <<>> THEN Some(DecodeUtf8(p.stderr)) ELSE None,
                                 CommandOf(a)[1])

\* A slip: the payload is extracted whatever the exit code.
AsyncResultAlwaysParsed(a, p) ==
    LET stdout_str == IF p.stdout # <<>> THEN DecodeUtf8(p.stdout) ELSE ""
    IN  IF p.returncode = 0
        THEN CLIInvocationResult("success", ToolOf(a), stdout_str, AsyncParsed(p).val,
                                 IntOr(p.returncode, 0), None, CommandOf(a)[1])
        ELSE CLIInvocationResult("failed", ToolOf(a), stdout_str,
                                 IF AsyncParsed(p).kind = "value" THEN AsyncParsed(p).val ELSE None,
                                 IntOr(p.returncode, -1),
                                 Some(IF p.stderr # <<>> THEN DecodeUtf8(p.stderr) ELSE ""),
                                 CommandOf(a)[1])

\* invoke_async, after communicate() has returned for the process p
AsyncResult(a, p) ==
    LET stdout_str == IF p.stdout # <<>> THEN DecodeUtf8(p.stdout) ELSE ""
    IN  IF p.returncode = 0
        THEN CLIInvocationResult("success", ToolOf(a), stdout_str, AsyncParsed(p).val,
                                 IntOr(p.returncode, 0), None, CommandOf(a)[1])
        ELSE CLIInvocationResult("failed", ToolOf(a), stdout_str, None, IntOr(p.returncode, -1),
                                 Some(IF p.stderr # <<>> THEN DecodeUtf8(p.stderr) ELSE ""),
                                 CommandOf(a)[1])


(***************************************************************************)
(* One invocation: invoke_sync or invoke_async for the arguments Args(i).  *)
(* task[i].pc is the position in the function:                             *)
(*   "created"      invoke_with_limit waits for the semaphore              *)
(*   "start"        before the process is created                          *)
(*   "communicate"  in subprocess.run / awaiting wait_for(communicate())   *)
(*   "killed"       subprocess.run has timed out and killed the process    *)
(*   "done"         ended, task[i].out is the value returned or the        *)
(*                  exception raised                                       *)
(***************************************************************************)
IsSync == call.kind = "invoke_sync"
IsParallel == call.kind = "invoke_parallel"

\* the exceptions the except clause of the function catches.  The timeout of
\* asyncio.wait_for is the builtin TimeoutError (Python 3.11 and later), which
\* is also the OSError raised for errno ETIMEDOUT.
Caught(e) == IF IsSync THEN e = "TimeoutExpired" ELSE e = "TimeoutError"

\* how the function ends when e is raised inside its try block
AfterException(a, e) == IF Caught(e) THEN Returned(TimeoutResult(a)) ELSE Raised(e)

\* the result is returned, unless extract_json_from_output raised on the
\* stdout of a zero exit
SyncOutcome(a, p) ==
    IF p.returncode = 0 /\ SyncParsed(p).kind = "raised"
    THEN AfterException(a, SyncParsed(p).exc)
    ELSE Returned(SyncResult(a, p))
AsyncOutcome(a, p) ==
    IF p.returncode = 0 /\ AsyncParsed(p).kind = "raised"
    THEN AfterException(a, AsyncParsed(p).exc)
    ELSE Returned(AsyncResult(a, p))

\* Popen.kill() and Popen.wait() of subprocess.run's timeout handling
Kill(p) == IF p.state = "running" THEN [p EXCEPT !.state = "exited", !.returncode = -9] ELSE p
Wait(p) == [p EXCEPT !.state = "reaped"]

\* A slip: the semaphore never makes a task wait.
LockedNever(sem) == FALSE

\* A slip: leaving the block keeps the permit.
ReleasePermitLeak(sem) == sem

\* A slip: leaving the block gives back two permits.
ReleasePermitTwice(sem) == sem + 2

\* async with semaphore: __aenter__ and __aexit__
Locked(sem) == sem = 0
AcquirePermit(sem) == sem - 1
ReleasePermit(sem) == sem + 1

\* A slip: a child that ends Failed or Timeout cancels the children still
\* running or waiting (fail-fast, as a task group does).
OnTaskEndCancelRest(t, i, out) ==
    [k \in DOMAIN t |->
        IF k = i THEN [t[k] EXCEPT !.pc = "done", !.out = out]
        ELSE IF out.kind = "value" /\ out.val.status # "success" /\ t[k].pc # "done"
             THEN [t[k] EXCEPT !.pc = "cancelled", !.out = Raised("CancelledError")]
             ELSE t[k]]

\* asyncio.gather: a child that ends leaves the other children as they are
OnTaskEnd(t, i, out) == [t EXCEPT ![i].pc = "done", ![i].out = out]

\* A slip: the results are collected as the children end.
GatherResultsByCompletion(t, ord) == [k \in 1..Len(t) |-> t[ord[k]].out.val]

\* asyncio.gather: the results of the children, in the order of the arguments
GatherResults(t, ord) == [k \in 1..Len(t) |-> t[k].out.val]

\* the invocation i ends with out; in invoke_parallel the permit is released
EndTask(i, out) ==
    /\ task' = OnTaskEnd(task, i, out)
    /\ order' = Append(order, i)
    /\ semaphore' = IF IsParallel THEN ReleasePermit(semaphore) ELSE semaphore
    /\ ret' = IF IsParallel THEN ret ELSE out

\* async with semaphore: return await self.invoke_async(prompt)
Acquire(i) ==
    /\ IsParallel
    /\ task[i].pc = "created"
    /\ ~Locked(semaphore)
    /\ semaphore' = AcquirePermit(semaphore)
    /\ task' = [task EXCEPT ![i].pc = "start", ![i].calls = @ + 1]
    /\ UNCHANGED <<primary_cli, fallback_cli, default_timeout, call, ret, proc, order>>

\* subprocess.run / create_subprocess_exec starts the child
SpawnOk(i) ==
    /\ task[i].pc = "start"
    /\ proc' = [proc EXCEPT ![i].state = "running", ![i].spawned = @ + 1]
    /\ task' = [task EXCEPT ![i].pc = "communicate"]
    /\ UNCHANGED <<primary_cli, fallback_cli, default_timeout, call, ret, semaphore, order>>

\* subprocess.run / create_subprocess_exec raises the OSError of the failed exec
SpawnFail(i) ==
    /\ task[i].pc = "start"
    /\ \E e \in SpawnErrors :
        /\ proc' = [proc EXCEPT ![i].state = "failed", ![i].spawn_error = e]
        /\ EndTask(i, AfterException(Args(i), e))
    /\ UNCHANGED <<primary_cli, fallback_cli, default_timeout, call>>

\* the child writes to its stdout while the parent reads the pipe
ProcEmit(i) ==
    /\ task[i].pc = "communicate"
    /\ proc[i].state = "running"
    /\ proc[i].stdout = <<>>
    /\ \E bytes \in StdoutChunks(call.kind) : proc' = [proc EXCEPT ![i].stdout = bytes]
    /\ UNCHANGED <<primary_cli, fallback_cli, default_timeout, call, ret, semaphore, task, order>>

\* the child exits on its own
ProcExit(i) ==
    /\ proc[i].state = "running"
    /\ \E code \in ExitCodes, err \in StderrChunks(call.kind) :
        proc' = [proc EXCEPT ![i].state = "exited", ![i].returncode = code, ![i].stderr = err]
    /\ UNCHANGED <<primary_cli, fallback_cli, default_timeout, call, ret, semaphore, task, order>>

\* the child has exited within the timeout: the result is built and returned
CommunicateDone(i) ==
    /\ task[i].pc = "communicate"
    /\ proc[i].state = "exited"
    /\ proc' = [proc EXCEPT ![i] = Wait(@)]
    /\ EndTask(i, IF IsSync THEN SyncOutcome(Args(i), proc[i])
                            ELSE AsyncOutcome(Args(i), proc[i]))
    /\ UNCHANGED <<primary_cli, fallback_cli, default_timeout, call>>

\* subprocess.run: communicate(timeout=) raises TimeoutExpired, the child is killed
SyncTimeoutKill(i) ==
    /\ IsSync
    /\ task[i].pc = "communicate"
    /\ proc' = [proc EXCEPT ![i] = Kill(@)]
    /\ task' = [task EXCEPT ![i].pc = "killed"]
    /\ UNCHANGED <<primary_cli, fallback_cli, default_timeout, call, ret, semaphore, order>>

\* A slip: the timeout is reported without waiting for the killed child.
SyncTimeoutReturnNoWait(i) ==
    /\ IsSync
    /\ task[i].pc = "killed"
    /\ proc' = proc
    /\ EndTask(i, AfterException(Args(i), "TimeoutExpired"))
    /\ UNCHANGED <<primary_cli, fallback_cli, default_timeout, call>>

\* subprocess.run: the killed child is waited for and TimeoutExpired is raised
\* again; except subprocess.TimeoutExpired returns the Timeout result
SyncTimeoutReturn(i) ==
    /\ IsSync
    /\ task[i].pc = "killed"
    /\ proc' = [proc EXCEPT ![i] = Wait(@)]
    /\ EndTask(i, AfterException(Args(i), "TimeoutExpired"))
    /\ UNCHANGED <<primary_cli, fallback_cli, default_timeout, call>>

\* asyncio.wait_for cancels communicate() and raises TimeoutError; except
\* TimeoutError returns the Timeout result.  Nothing is done to the child.
AsyncTimeout(i) ==
    /\ ~IsSync
    /\ task[i].pc = "communicate"
    /\ EndTask(i, AfterException(Args(i), "TimeoutError"))
    /\ UNCHANGED <<primary_cli, fallback_cli, default_timeout, call, proc>>

\* return await asyncio.gather(*tasks): every child has returned a value
ParallelReturn ==
    /\ IsParallel
    /\ ret.kind = "pending"
    /\ \A i \in DOMAIN task : task[i].pc = "done" /\ task[i].out.kind = "value"
    /\ ret' = Returned(GatherResults(task, order))
    /\ UNCHANGED <<primary_cli, fallback_cli, default_timeout, call, semaphore, task, proc, order>>

\* the first child that raised
FirstRaised == order[CHOOSE k \in 1..Len(order) :
                        /\ task[order[k]].out.kind = "raised"
                        /\ \A j \in 1..(k - 1) : task[order[j]].out.kind # "raised"]

\* return await asyncio.gather(*tasks): the first exception of a child is
\* raised to the caller, the other children go on
ParallelRaise ==
    /\ IsParallel
    /\ ret.kind = "pending"
    /\ \E i \in DOMAIN task : task[i].pc = "done" /\ task[i].out.kind = "raised"
    /\ ret' = task[FirstRaised].out
    /\ UNCHANGED <<primary_cli, fallback_cli, default_timeout, call, semaphore, task, proc, order>>

(***************************************************************************)
(* The calls.                                                              *)
(***************************************************************************)
PrimaryClis == {"claude", "claude-dev"}
FallbackArgs == {Some("opencode"), Some("none")}
ToolArgs == {None, Some("claude"), Some("opencode")}
TimeoutArgs == {None, Some(0), Some(5)}
AllowedArgs == {None, Some(<<"Read">>)}

InvokeCalls ==
    [kind : {"invoke_sync", "invoke_async"}, prompt : Prompts, tool : ToolArgs,
     timeout : TimeoutArgs, allowed_tools : AllowedArgs]

\* the prompts of invoke_parallel: "A", "B", "A", "B", ... up to MaxPrompts
PromptAt(k) == IF k % 2 = 1 THEN "A" ELSE "B"
PromptSeqs == {[k \in 1..n |-> PromptAt(k)] : n \in 0..MaxPrompts}

ParallelCalls ==
    [kind : {"invoke_parallel"}, prompts : PromptSeqs, max_concurrent : 1..MaxConcurrent]

NumTasks(c) == IF c.kind = "invoke_parallel" THEN Len(c.prompts) ELSE 1

TaskInit(c) ==
    [i \in 1..NumTasks(c) |->
        [pc |-> IF c.kind = "invoke_parallel" THEN "created" ELSE "start",
         calls |-> IF c.kind = "invoke_parallel" THEN 0 ELSE 1,
         out |-> Pending]]

(***************************************************************************)
(* Specification of one call of invoke_sync or invoke_async.               *)
(***************************************************************************)
Init ==
    /\ primary_cli \in PrimaryClis
    /\ fallback_cli \in {FallbackCliOf(f) : f \in FallbackArgs}
    /\ default_timeout = DefaultTimeout
    /\ call \in InvokeCalls
    /\ ret = Pending
    /\ semaphore = 0
    /\ task = TaskInit(call)
    /\ proc = [i \in 1..NumTasks(call) |-> NoProcess]
    /\ order = <<>>

Next ==
    \E i \in DOMAIN task :
        \/ SpawnOk(i)
        \/ SpawnFail(i)
        \/ ProcEmit(i)
        \/ ProcExit(i)
        \/ CommunicateDone(i)
        \/ SyncTimeoutKill(i)
        \/ SyncTimeoutReturn(i)
        \/ AsyncTimeout(i)

Spec == Init /\ [][Next]_vars

(***************************************************************************)
(* Specification of one call of invoke_parallel.                           *)
(***************************************************************************)
InitParallel ==
    /\ primary_cli \in PrimaryClis
    /\ fallback_cli \in {FallbackCliOf(f) : f \in FallbackArgs}
    /\ default_timeout = DefaultTimeout
    /\ call \in ParallelCalls
    /\ ret = Pending
    /\ semaphore = call.max_concurrent
    /\ task = TaskInit(call)
    /\ proc = [i \in 1..NumTasks(call) |-> NoProcess]
    /\ order = <<>>

NextParallel ==
    \/ \E i \in DOMAIN task :
        \/ Acquire(i)
        \/ SpawnOk(i)
        \/ SpawnFail(i)
        \/ ProcEmit(i)
        \/ ProcExit(i)
        \/ CommunicateDone(i)
        \/ AsyncTimeout(i)
    \/ ParallelReturn
    \/ ParallelRaise

SpecParallel == InitParallel /\ [][NextParallel]_vars

\* the steps of the coroutine invoke_with_limit(prompts[i]) itself; what the
\* child does (ProcEmit, ProcExit) is not among them
TaskStep(i) ==
    /\ i \in DOMAIN task
    /\ \/ Acquire(i)
       \/ SpawnOk(i)
       \/ SpawnFail(i)
       \/ CommunicateDone(i)
       \/ AsyncTimeout(i)

\* The event loop runs every task that is ready: one whose permit is free,
\* whose process creation has completed, whose child has exited or whose
\* wait_for timer has fired (the timer is always armed, timeout is never
\* None), and the gather of the caller once its children have ended.
SpecParallelFair ==
    /\ SpecParallel
    /\ \A i \in 1..MaxPrompts : WF_vars(TaskStep(i))
    /\ WF_vars(ParallelReturn \/ ParallelRaise)


(***************************************************************************)
(* Properties.                                                             *)
(***************************************************************************)
Tasks == DOMAIN task
HasResult(i) == task[i].pc = "done" /\ task[i].out.kind = "value"
ResultOf(i) == task[i].out.val

\* the invocations inside invoke_async: permit acquired, not yet released
Executing == {i \in Tasks : task[i].pc \in {"start", "communicate"}}

\* C1: in invoke_parallel with cap N >= 1 at most N invocations are inside
\* invoke_async at any time (with N = 1: one at a time).
C1_AtMostNExecuting ==
    IsParallel => Cardinality(Executing) <= call.max_concurrent

\* the cap is reached, by a child that is running, while another prompt
\* waits for a permit
C1_Witness ==
    /\ IsParallel
    /\ Cardinality(Executing) = call.max_concurrent
    /\ \E i \in Executing : proc[i].state = "running"
    /\ \E i \in Tasks : task[i].pc = "created"

\* C2: the sequence invoke_parallel returns is as long as the prompts and its
\* i-th element is the result of the invocation of the i-th prompt, whatever
\* the order in which the children ended.
C2_ResultsAlignedWithPrompts ==
    (IsParallel /\ ret.kind = "value") =>
        /\ Len(ret.val) = Len(call.prompts)
        /\ \A i \in 1..Len(call.prompts) :
            /\ ret.val[i] = ResultOf(i)
            /\ Last(ret.val[i].command) = call.prompts[i]
            /\ ret.val[i].status = "success" => proc[i].returncode = 0
            /\ ret.val[i].status = "failed" => ret.val[i].returncode = proc[i].returncode

\* two prompts, the second ended first, with results that differ
C2_Witness ==
    /\ IsParallel
    /\ ret.kind = "value"
    /\ order = <<2, 1>>
    /\ ret.val[1].status = "success"
    /\ ret.val[2].status = "failed"

\* C3 as stated: once invoke_async has returned a Timeout result, the child
\* process of that invocation is no longer running.
C3_TimeoutLeavesNoRunningProcess ==
    \A i \in Tasks :
        (~IsSync /\ HasResult(i) /\ ResultOf(i).status = "timeout") =>
            proc[i].state # "running"

\* C4: a timeout of invoke_sync is returned as Timeout with exit code -1,
\* empty output and the message naming the timeout in force, and by then the
\* child has been killed and reaped.
C4_SyncTimeoutKillsAndReaps ==
    \A i \in Tasks :
        /\ (IsSync /\ HasResult(i) /\ ResultOf(i).status = "timeout") =>
              /\ ResultOf(i).returncode = -1
              /\ ResultOf(i).output = ""
              /\ ResultOf(i).error =
                    IF call.timeout = Some(5) THEN Some("Timeout after 5s")
                                              ELSE Some("Timeout after 600s")
              /\ proc[i].state = "reaped"
        /\ (IsSync /\ task[i].pc = "done" /\ proc[i].returncode = -9) =>
              /\ HasResult(i)
              /\ ResultOf(i).status = "timeout"

\* invoke_sync timed out on a child that was still running and had written
C4_Witness ==
    /\ IsSync
    /\ HasResult(1)
    /\ ResultOf(1).status = "timeout"
    /\ call.timeout = Some(5)
    /\ proc[1].returncode = -9
    /\ proc[1].stdout # <<>>

\* C5: in every result of invoke_sync or invoke_async, Success goes with exit
\* code 0 and no error, Failed with a nonzero exit code and an error, Timeout
\* with exit code -1 and the timeout message.
C5_StatusInvariants ==
    \A i \in Tasks :
        HasResult(i) =>
            LET r == ResultOf(i) IN
            /\ r.status \in {"success", "failed", "timeout"}
            /\ r.status = "success" => (r.returncode = 0 /\ r.error = None)
            /\ r.status = "failed" => (r.returncode # 0 /\ r.error # None)
            /\ r.status = "timeout" =>
                  /\ r.returncode = -1
                  /\ r.error \in {Some("Timeout after 5s"), Some("Timeout after 600s")}

\* invoke_async on a child that exited nonzero and wrote nothing to stderr
C5_Witness ==
    /\ call.kind = "invoke_async"
    /\ HasResult(1)
    /\ ResultOf(1).status = "failed"
    /\ proc[1].stderr = <<>>
    /\ ResultOf(1).error = Some("")

\* C6: a Failed or Timeout result of one prompt cancels or skips no other
\* prompt: no child of invoke_parallel is ever cancelled, each prompt is
\* invoked at most once, and when invoke_parallel returns every prompt has
\* been invoked once, has ended and has its result in the returned sequence.
C6_OthersRunToCompletion ==
    IsParallel =>
        /\ \A i \in Tasks : task[i].pc # "cancelled" /\ task[i].calls <= 1
        /\ ret.kind = "value" =>
              /\ Len(ret.val) = Len(call.prompts)
              /\ \A i \in Tasks : task[i].calls = 1 /\ HasResult(i)

\* the first prompt to end was Failed, the other then ran to Success, and a
\* result for both was returned
C6_Witness ==
    /\ IsParallel
    /\ ret.kind = "value"
    /\ Len(order) = 2
    /\ ResultOf(order[1]).status \in {"failed", "timeout"}
    /\ ResultOf(order[2]).status = "success"
    /\ call.max_concurrent = 1

\* C7 as stated: no outcome of invoke_sync or invoke_async reaches the caller
\* as a raised exception.
C7_NoOutcomeIsRaised ==
    ret.kind # "raised"

\* C8 as stated: when the child process could not be started, the invocation
\* yields no result value (Failed, Success or Timeout): the failure reaches
\* the caller in another way.
C8_SpawnFailureIsNoResult ==
    \A i \in Tasks :
        (proc[i].state = "failed" /\ task[i].pc = "done") => task[i].out.kind # "value"

\* the text of the stdout bytes as the function decodes them
CapturedStdout(i) == IF IsSync THEN DecodeText(proc[i].stdout) ELSE DecodeUtf8(proc[i].stdout)

\* C9 as stated: a Failed or Timeout result carries in its output all the
\* stdout captured from the child.
C9_StdoutRetained ==
    \A i \in Tasks :
        (HasResult(i) /\ ResultOf(i).status \in {"failed", "timeout"}) =>
            ResultOf(i).output = CapturedStdout(i)

\* C10 as stated: for every tool, with sandbox mode the prompt is not the
\* last element of argv and stdin is "/sandbox\n" + prompt; without it the
\* prompt is the last element of argv and there is no stdin payload.
C10_SandboxForEveryTool ==
    (call.kind = "build_command" /\ ret.kind = "value") =>
        IF call.enable_sandbox
        THEN /\ Last(ret.val[1]) # call.prompt
             /\ ret.val[2] = Some("/sandbox\n" \o call.prompt)
        ELSE /\ Last(ret.val[1]) = call.prompt
             /\ ret.val[2] = None

\* C10 amended: for a tool other than "opencode", with sandbox mode argv ends
\* with "-p", no prompt is appended after the options and stdin is
\* "/sandbox\n" + prompt; for "opencode", or without sandbox mode, the prompt
\* is the last element of argv and there is no stdin payload.
C10_SandboxForClaude ==
    (call.kind = "build_command" /\ ret.kind = "value") =>
        IF call.enable_sandbox /\ call.tool # "opencode"
        THEN /\ Last(ret.val[1]) = "-p"
             /\ Len(ret.val[1]) = 1 + Len(ClaudeOptions(call.model, call.allowed_tools,
                                                         call.add_dirs, call.settings_json))
             /\ ret.val[2] = Some("/sandbox\n" \o call.prompt)
        ELSE /\ Last(ret.val[1]) = call.prompt
             /\ ret.val[2] = None

\* a sandboxed command for claude with directories and tools
C10_Witness ==
    /\ call.kind = "build_command"
    /\ ret.kind = "value"
    /\ call.enable_sandbox
    /\ call.tool = "claude"
    /\ call.prompt = "A"
    /\ TruthyList(call.add_dirs)
    /\ TruthyList(call.allowed_tools)

\* the flag pairs <<flag, x1, flag, x2, ...>> for the items <<x1, x2, ...>>
FlagPairs(flag, items) ==
    [k \in 1..(2 * Len(items)) |-> IF k % 2 = 1 THEN flag ELSE items[k \div 2]]

\* an optional text that is given (not None, not empty) as <<flag, text>>
OptionalFlag(flag, o) == IF o = None \/ o = Some("") THEN <<>> ELSE <<flag, o[1]>>

\* an optional list as the list it stands for (None as the empty list)
ListOf(o) == IF o = None THEN <<>> ELSE o[1]

\* C11: build_command returns exactly these argument vectors: for "opencode"
\* <<"opencode", "run", ("--model", M)?, prompt>> with no stdin; for any other
\* tool <<"claude", ("--model", M)?, ("--settings", path)?, an ("--add-dir", D)
\* pair per directory in input order, an ("--allowedTools", T) pair per tool
\* in input order, "-p">> followed by the prompt unless in sandbox mode; an
\* empty or absent list (or text) contributes no flag.
C11_ArgvShapes ==
    (call.kind = "build_command" /\ ret.kind = "value") =>
        IF call.tool = "opencode"
        THEN /\ ret.val[1] = <<"opencode", "run">> \o OptionalFlag("--model", call.model)
                                \o <<call.prompt>>
             /\ ret.val[2] = None
        ELSE ret.val[1] =
                <<"claude">> \o OptionalFlag("--model", call.model)
                    \o OptionalFlag("--settings", call.settings_json)
                    \o FlagPairs("--add-dir", [k \in 1..Len(ListOf(call.add_dirs)) |->
                                                  Str(ListOf(call.add_dirs)[k])])
                    \o FlagPairs("--allowedTools", ListOf(call.allowed_tools))
                    \o <<"-p">>
                    \o (IF call.enable_sandbox THEN <<>> ELSE <<call.prompt>>)

\* a claude command with a model, settings, two directories and two tools
C11_Witness ==
    /\ call.kind = "build_command"
    /\ ret.kind = "value"
    /\ call.tool = "claude"
    /\ call.model = Some("opus")
    /\ call.settings_json = Some("s.json")
    /\ call.add_dirs = Some(<<PathDir(<<"a", "b">>), StrDir("c")>>)
    /\ call.allowed_tools = Some(<<"Write", "Read">>)
    /\ ~call.enable_sandbox
    /\ ret.val[1] = <<"claude", "--model", "opus", "--settings", "s.json", "--add-dir", "a/b",
                      "--add-dir", "c", "--allowedTools", "Write", "--allowedTools", "Read",
                      "-p", call.prompt>>

\* C12 as stated: the binary at argv[0] is the binary of the selected tool,
\* the configured primary binary when the primary tool is selected and the
\* configured fallback binary when the fallback tool is selected, so that the
\* tool of every result names the executable at command[0].
C12_BinaryIsSelectedTool ==
    \A i \in Tasks :
        HasResult(i) =>
            LET r == ResultOf(i) IN
            /\ r.tool = primary_cli => r.command[1] = primary_cli
            /\ (fallback_cli # None /\ r.tool = Val(fallback_cli)) =>
                  r.command[1] = Val(fallback_cli)
            /\ r.command[1] = r.tool

\* the texts extract_json_from_output hands to json.loads, in the order of
\* the claim: the whole text, the fenced blocks, the {...} and the [...] span
Attempts(ts) ==
    <<ts>> \o StripAll(FindFenced(ts, 1)) \o FindGreedy(ts, "{", "}") \o FindGreedy(ts, "[", "]")
ParsingAttempts(ts) == {k \in 1..Len(Attempts(ts)) : json_loads(Attempts(ts)[k]).ok}

\* C13: extract_json_from_output never raises and returns the value of the
\* first attempt that parses (whole text, fenced blocks in order, greedy
\* braces, greedy brackets), or no payload when no attempt parses.
C13_FirstParsingAttempt ==
    (call.kind = "extract_json_from_output" /\ ret # Pending) =>
        /\ ret.kind = "value"
        /\ ret.val = IF ParsingAttempts(call.output) = {} THEN None
                     ELSE PyReturn(json_loads(Attempts(call.output)[Min(ParsingAttempts(call.output))]).val)

\* C14: an invocation whose child exited with code 0 after writing exactly
\* "4" returns status Success, output "4" and no parsed payload.
C14_BareNumberHasNoPayload ==
    \A i \in Tasks :
        (HasResult(i) /\ proc[i].state = "reaped" /\ proc[i].returncode = 0
                      /\ proc[i].stdout = <<"4">>) =>
            /\ ResultOf(i).status = "success"
            /\ ResultOf(i).output = "4"
            /\ ResultOf(i).parsed_json = None

\* C15: invoke_sync and invoke_async agree.  For a child that was started,
\* an ended invocation leaves it exited and reaped (on its own or after the
\* timeout), and when the child exited in time the result is the one either
\* function builds from the same exit code, stdout and stderr.
C15_SyncAsyncSameSemantics ==
    \A i \in Tasks :
        (task[i].pc = "done" /\ proc[i].state # "failed") =>
            /\ proc[i].state = "reaped"
            /\ (HasResult(i) /\ ResultOf(i).status # "timeout") =>
                   SyncResult(Args(i), proc[i]) = AsyncResult(Args(i), proc[i])

\* C16: in invoke_parallel the free permits and the invocations holding one
\* always add up to N; a task has taken one permit once it is past the
\* semaphore and none before, and has given it back when its invocation has
\* ended, whether with a result of any status or with a raised error.
C16_PermitsMatched ==
    IsParallel =>
        /\ semaphore \in 0..call.max_concurrent
        /\ semaphore + Cardinality(Executing) = call.max_concurrent
        /\ \A i \in Tasks : task[i].calls = IF task[i].pc = "created" THEN 0 ELSE 1

\* every invocation has ended, one with a raised error and one with a
\* Timeout result, and all N permits are free again
C16_Witness ==
    /\ IsParallel
    /\ \A i \in Tasks : task[i].pc = "done"
    /\ \E i \in Tasks : task[i].out.kind = "raised"
    /\ \E i \in Tasks : HasResult(i) /\ ResultOf(i).status = "timeout"
    /\ semaphore = call.max_concurrent

C18_NoFallbackDispatch ==
    \A i \in Tasks :
        /\ proc[i].spawned <= 1
        /\ HasResult(i) =>
              /\ ResultOf(i).status \in {"success", "failed", "timeout"}
              /\ ResultOf(i).fallback_used = FALSE
              /\ proc[i].spawned = 1

\* the children of the call that have been started and have not exited
Running == {i \in Tasks : proc[i].state = "running"}

\* C19: during and after invoke_parallel with cap N, at most N of the child
\* processes it started are still running, also after Timeout results.
C19_AtMostNChildrenRunning ==
    IsParallel => Cardinality(Running) <= call.max_concurrent

\* what extract_json_from_output gives for the stdout the invocation i read
ParsedStdout(i) == IF IsSync THEN SyncParsed(proc[i]) ELSE AsyncParsed(proc[i])

\* C20: a Failed or Timeout result has no parsed payload, whatever the child
\* wrote; only a Success result carries what extraction gave, so a miss shows
\* as Success with the payload absent.
C20_PayloadOnlyOnSuccess ==
    \A i \in Tasks :
        HasResult(i) =>
            /\ ResultOf(i).status \in {"failed", "timeout"} => ResultOf(i).parsed_json = None
            /\ ResultOf(i).status = "success" => ResultOf(i).parsed_json = ParsedStdout(i).val

\* a Failed result of a child that wrote a JSON object: no payload in it
C20_Witness ==
    \E i \in Tasks :
        /\ HasResult(i)
        /\ ResultOf(i).status = "failed"
        /\ proc[i].stdout = <<"{", "\"x\"", ":", "1", "}">>
        /\ ParsedStdout(i).val # None
        /\ ResultOf(i).parsed_json = None

====
